---- MODULE Spec2Model ----
(***************************************************************************)
(* Model of refactor_pricing_package.py: the migration of the flat         *)
(* com.meatrics.pricing package into domain sub-packages.                  *)
(*                                                                         *)
(* The file system is the only persistent state.  A file's content is a    *)
(* sequence of lines; a line is a record that keeps exactly what the       *)
(* script's patterns look at (package declaration, import, wildcard        *)
(* import, words of a code line).  The Domain Table of the model is a      *)
(* sub-table of DOMAINS (three of the 33 files, two of the 8 domains).     *)
(***************************************************************************)
EXTENDS Integers, Sequences, FiniteSets, TLC

\* ---------------------------------------------------------------- bounds
\* Longest file content (in lines) of the initial tree.
MaxLines == 2
\* Number of consecutive invocations of the script on the same tree.
MaxRuns == 2

\* ----------------------------------------------------------- lines, files
\* What a path holds: no file, or a file with its content.
NoFile == [exists |-> FALSE, content |-> <<>>]
File(content) == [exists |-> TRUE, content |-> content]

Package(form, sub) == [k |-> "package", form |-> form, sub |-> sub, cls |-> "", uses |-> {}]
Import(sub, cls) == [k |-> "import", form |-> "plain", sub |-> sub, cls |-> cls, uses |-> {}]
Wildcard == [k |-> "wildcard", form |-> "plain", sub |-> "", cls |-> "", uses |-> {}]
Code(words) == [k |-> "code", form |-> "plain", sub |-> "", cls |-> "", uses |-> words]

\* The words (maximal runs of word characters) of a line.
Words(line) ==
    CASE line.k = "package" -> {"package", "com", "meatrics", "pricing"} \cup ({line.sub} \ {""})
      [] line.k = "import" -> {"import", "com", "meatrics", "pricing", line.cls} \cup ({line.sub} \ {""})
      [] line.k = "wildcard" -> {"import", "com", "meatrics", "pricing"}
      [] OTHER -> line.uses

\* ------------------------------------------------------------ configuration
BASE_DIR == <<>>
PRICING_DIR == BASE_DIR \o <<"pricing">>

DOMAINS ==
    << [domain |-> "rule", files |-> << <<"PricingRule", ".java">>, <<"RuleCategory", ".java">> >>],
       [domain |-> "calculation", files |-> << <<"PricePreview", ".java">> >>] >>

\* filename.replace(".java", "")
ClassName(filename) == SelectSeq(filename, LAMBDA part : part # ".java")[1]

\* The (domain, filename) pairs in the iteration order of the nested loops.
RECURSIVE PairsFrom(_)
PairsFrom(d) ==
    IF d > Len(DOMAINS) THEN <<>>
    ELSE [n \in 1..Len(DOMAINS[d].files) |->
             [domain |-> DOMAINS[d].domain, filename |-> DOMAINS[d].files[n]]]
         \o PairsFrom(d + 1)

Pairs == PairsFrom(1)

\* CLASS_TO_DOMAIN, as the sequence of its (classname, domain) items in
\* insertion order.
CLASS_TO_DOMAIN ==
    [n \in 1..Len(Pairs) |-> [classname |-> ClassName(Pairs[n].filename), domain |-> Pairs[n].domain]]

KnownClasses == {CLASS_TO_DOMAIN[n].classname : n \in 1..Len(CLASS_TO_DOMAIN)}

DomainOf(classname) ==
    LET n == CHOOSE m \in 1..Len(CLASS_TO_DOMAIN) :
                 /\ CLASS_TO_DOMAIN[m].classname = classname
                 /\ \A l \in (m + 1)..Len(CLASS_TO_DOMAIN) : CLASS_TO_DOMAIN[l].classname # classname
    IN CLASS_TO_DOMAIN[n].domain

\* A path is a directory (relative to BASE_DIR) and a file name.
Path(dir, filename) == [dir |-> dir, name |-> filename]
Source(filename) == Path(PRICING_DIR, filename)
Dest(domain, filename) == Path(PRICING_DIR \o <<domain>>, filename)

DomainDirs == {PRICING_DIR \o <<DOMAINS[d].domain>> : d \in 1..Len(DOMAINS)}

\* Files of the tree that are not in the Domain Table.
ViewFile == Path(BASE_DIR \o <<"ui">>, <<"PricingView", ".java">>)
NotesFile == Path(PRICING_DIR, <<"notes", ".txt">>)

\* Every file path of the model, in directory-listing order.
PathList ==
    [n \in 1..Len(Pairs) |-> Source(Pairs[n].filename)]
    \o [n \in 1..Len(Pairs) |-> Dest(Pairs[n].domain, Pairs[n].filename)]
    \o <<ViewFile, NotesFile>>

Paths == {PathList[n] : n \in 1..Len(PathList)}

Reverse(s) == [n \in 1..Len(s) |-> s[Len(s) + 1 - n]]

\* BASE_DIR.rglob("*.java"): the existing .java files, in one of the orders
\* a directory walk may produce.
ScanOrders == {PathList, Reverse(PathList)}
Rglob(files, order) ==
    SelectSeq(order, LAMBDA p : files[p] # NoFile /\ p.name[Len(p.name)] = ".java")

\* --------------------------------------------------------- text operations
\* Code points of the identifiers of the model (Python compares str by
\* code point).
Chars ==
    [PricingRule |-> <<80, 114, 105, 99, 105, 110, 103, 82, 117, 108, 101>>,
     RuleCategory |-> <<82, 117, 108, 101, 67, 97, 116, 101, 103, 111, 114, 121>>,
     PricePreview |-> <<80, 114, 105, 99, 101, 80, 114, 101, 118, 105, 101, 119>>,
     PricingRuleView |-> <<80, 114, 105, 99, 105, 110, 103, 82, 117, 108, 101, 86, 105, 101, 119>>]

RECURSIVE SeqLess(_, _)
SeqLess(a, b) ==
    IF b = <<>> THEN FALSE
    ELSE IF a = <<>> THEN TRUE
    ELSE IF Head(a) # Head(b) THEN Head(a) < Head(b)
    ELSE SeqLess(Tail(a), Tail(b))

StrLess(a, b) == SeqLess(Chars[a], Chars[b])

\* Variant: sorted(used_classes, reverse=True)
RECURSIVE SortedReverse(_)
SortedReverse(S) ==
    IF S = {} THEN <<>>
    ELSE LET greatest == CHOOSE x \in S : \A y \in S \ {x} : SeqLess(Chars[y], Chars[x])
         IN <<greatest>> \o SortedReverse(S \ {greatest})

\* sorted(used_classes)
RECURSIVE Sorted(_)
Sorted(S) ==
    IF S = {} THEN <<>>
    ELSE LET least == CHOOSE x \in S : \A y \in S \ {x} : StrLess(x, y)
         IN <<least>> \o Sorted(S \ {least})

RECURSIVE Flatten(_)
Flatten(ss) == IF ss = <<>> THEN <<>> ELSE Head(ss) \o Flatten(Tail(ss))

\* Variant: the pattern without its ^ anchor.
MatchesOldPackageUnanchored(line) ==
    /\ line.k = "package"
    /\ line.sub = ""

\* Does  ^package\s+com\.meatrics\.pricing\s*;  match at the start of the line?
MatchesOldPackage(line) ==
    /\ line.k = "package"
    /\ line.form \in {"plain", "spaced"}
    /\ line.sub = ""

\* re.sub(r'^package\s+com\.meatrics\.pricing\s*;', f'package {new_package};',
\*        content, flags=re.MULTILINE)
UpdatePackage(content, domain) ==
    [n \in 1..Len(content) |->
        IF MatchesOldPackage(content[n]) THEN Package("plain", domain) ELSE content[n]]

\* "import com.meatrics.pricing.<classname>;" in content
HasOldImport(content, classname) ==
    \E n \in 1..Len(content) : content[n] = Import("", classname)

\* Variant: content.replace(old_import, new_import, 1)
ReplaceImportOnce(content, classname, domain) ==
    [n \in 1..Len(content) |->
        IF /\ content[n] = Import("", classname)
           /\ \A m \in 1..(n - 1) : content[m] # Import("", classname)
        THEN Import(domain, classname) ELSE content[n]]

\* content.replace(old_import, new_import)
ReplaceImport(content, classname, domain) ==
    [n \in 1..Len(content) |->
        IF content[n] = Import("", classname) THEN Import(domain, classname) ELSE content[n]]

\* The loop over CLASS_TO_DOMAIN.items(): the content and the number of
\* classes whose import was found, after the items from n on.
RECURSIVE SpecificImports(_, _, _)
SpecificImports(content, count, n) ==
    IF n > Len(CLASS_TO_DOMAIN) THEN [content |-> content, count |-> count]
    ELSE LET item == CLASS_TO_DOMAIN[n]
         IN IF HasOldImport(content, item.classname)
            THEN SpecificImports(ReplaceImport(content, item.classname, item.domain), count + 1, n + 1)
            ELSE SpecificImports(content, count, n + 1)

HasWildcard(content) == \E n \in 1..Len(content) : content[n] = Wildcard

\* re.search(r'\b' + classname + r'\b', content) for each known class
UsedClasses(content) ==
    {c \in KnownClasses : \E n \in 1..Len(content) : c \in Words(content[n])}

NewImports(used) ==
    LET names == Sorted(used)
    IN [n \in 1..Len(names) |-> Import(DomainOf(names[n]), names[n])]

\* Variant: the explicit imports are added after the wildcard line.
ReplaceWildcardKeepsLine(content, new_imports) ==
    Flatten([n \in 1..Len(content) |->
                IF content[n] = Wildcard THEN <<Wildcard>> \o new_imports ELSE <<content[n]>>])

\* content.replace("import com.meatrics.pricing.*;", "\n".join(new_imports))
ReplaceWildcard(content, new_imports) ==
    Flatten([n \in 1..Len(content) |->
                IF content[n] = Wildcard THEN new_imports ELSE <<content[n]>>])

\* The body of the loop of update_imports for one file: the new content and
\* file_import_count.
RewriteImports(original_content) ==
    LET specific == SpecificImports(original_content, 0, 1)
        used == UsedClasses(specific.content)
    IN IF HasWildcard(specific.content) /\ used # {}
       THEN [content |-> ReplaceWildcard(specific.content, NewImports(used)),
             count |-> specific.count + Len(NewImports(used))]
       ELSE specific

\* str.lower() on one character of the answers of the model
LowerChar(c) ==
    CASE c = "Y" -> "y"
      [] c = "E" -> "e"
      [] c = "S" -> "s"
      [] c = "N" -> "n"
      [] c = "O" -> "o"
      [] OTHER -> c

\* Variant: the response compared as typed.
LowerNot(s) == s

\* response.lower()
Lower(s) == [n \in 1..Len(s) |-> LowerChar(s[n])]

Yes == <<"y", "e", "s">>

\* ------------------------------------------------------------------ state
VARIABLES
    fs,              \* path -> content of the file, or NoFile
    dirs,            \* the directories that exist
    pc,              \* position of the running process
    run,             \* number of the invocation
    dry_run,         \* "--dry-run" in sys.argv
    response,        \* the answer to the confirmation prompt
    exit_code,       \* exit status of the process, -1 while it runs
    outcome,         \* how the process ended
    i,               \* create_domain_packages: index of the domain
    j,               \* move_files_and_update_packages: index of the pair
    todo,            \* update_imports: files of rglob not yet visited
    moved_count,
    files_updated,
    imports_updated,
    stages,          \* the stage functions called so far by this process
    fsStart,         \* fs when this process started
    dirsStart,       \* dirs when this process started
    impBefore,       \* fs when update_imports was called
    fsPrev,          \* fs when the previous process started
    prevOutcome      \* outcome of the previous process

vars == <<fs, dirs, pc, run, dry_run, response, exit_code, outcome, i, j, todo,
          moved_count, files_updated, imports_updated, stages, fsStart, dirsStart,
          impBefore, fsPrev, prevOutcome>>

fsVars == <<fs, dirs>>
counters == <<moved_count, files_updated, imports_updated>>
history == <<fsStart, dirsStart, fsPrev, prevOutcome, run>>

\* ---------------------------------------------------------- initial trees
Pool ==
    {Package("plain", ""), Package("spaced", ""), Package("indented", ""),
     Import("", "PricingRule"), Import("", "PricePreview"), Wildcard,
     Code({"PricePreview", "RuleCategory"}), Code({"PricingRuleView"})}

Contents == UNION {[1..n -> Pool] : n \in 0..MaxLines}

DefaultSource(filename) == <<Package("plain", ""), Code({ClassName(filename)})>>
DefaultView == <<Import("", "PricingRule"), Code({"PricingRule"})>>
DefaultNotes == <<Import("", "PricingRule"), Wildcard>>
StaleCopy == <<Package("plain", "rule")>>

Filenames == {Pairs[n].filename : n \in 1..Len(Pairs)}

\* The tree with the configured files of `present` in the flat package, the
\* file `focus` holding `content`, and, when `stale`, the rule directory
\* left by an earlier run with a copy of the first configured file.
Tree(present, focus, content, stale) ==
    [p \in Paths |->
        IF p = focus THEN File(content)
        ELSE IF p = ViewFile THEN File(DefaultView)
        ELSE IF p = NotesFile THEN File(DefaultNotes)
        ELSE IF p.dir = PRICING_DIR THEN (IF p.name \in present THEN File(DefaultSource(p.name)) ELSE NoFile)
        ELSE IF stale /\ p = Dest(Pairs[1].domain, Pairs[1].filename) THEN File(StaleCopy)
        ELSE NoFile]

FocusPaths == {Source(Pairs[1].filename), ViewFile}

\* The state of a process that has just been started on the tree.
Started ==
    /\ pc = "start"
    /\ run = 1
    /\ dry_run = FALSE
    /\ response = <<>>
    /\ exit_code = -1
    /\ outcome = "running"
    /\ i = 1
    /\ j = 1
    /\ todo = <<>>
    /\ moved_count = 0
    /\ files_updated = 0
    /\ imports_updated = 0
    /\ stages = <<>>
    /\ fsStart = fs
    /\ dirsStart = dirs
    /\ impBefore = fs
    /\ fsPrev = fs
    /\ prevOutcome = "none"

TreeDirs(stale) ==
    {BASE_DIR, ViewFile.dir, PRICING_DIR}
    \cup (IF stale THEN {Dest(Pairs[1].domain, Pairs[1].filename).dir} ELSE {})

\* Any subset of the configured files in the flat package, any content in
\* one of them or in the file outside the package; or no pricing directory.
Init ==
    /\ \/ \E present \in SUBSET Filenames, focus \in FocusPaths, content \in Contents, stale \in BOOLEAN :
            /\ focus.dir = PRICING_DIR => focus.name \in present
            /\ fs = Tree(present, focus, content, stale)
            /\ dirs = TreeDirs(stale)
       \/ /\ fs = [p \in Paths |-> IF p = ViewFile THEN File(DefaultView) ELSE NoFile]
          /\ dirs = {BASE_DIR, ViewFile.dir}
    /\ Started

\* The trees of the repeated invocations: any subset of the configured files
\* and any content of the file outside the package.
InitRerun ==
    /\ \E present \in SUBSET Filenames, content \in Contents \cup {DefaultView} :
            /\ present = Filenames \/ content = DefaultView
            /\ fs = Tree(present, ViewFile, content, FALSE)
            /\ dirs = TreeDirs(FALSE)
    /\ Started

\* ---------------------------------------------------------------- actions
Responses == {Yes, <<"Y", "e", "S">>, <<"n", "o">>, <<"y">>, <<>>}

\* sys.exit(code), or the return of main()
Exit(code, how) ==
    /\ pc' = "exited"
    /\ exit_code' = code
    /\ outcome' = how

\* main(), up to the confirmation prompt
Launch(dr) ==
    /\ pc = "start"
    /\ dry_run' = dr
    /\ IF PRICING_DIR \notin dirs
       THEN /\ Exit(1, "nodir")
            /\ UNCHANGED stages
       ELSE IF dr
       THEN /\ pc' = "create"
            /\ stages' = <<"create">>
            /\ UNCHANGED <<exit_code, outcome>>
       ELSE /\ pc' = "confirm"
            /\ UNCHANGED <<exit_code, outcome, stages>>
    /\ UNCHANGED <<fsVars, response, i, j, todo, counters, impBefore, history>>

\* main(): the answer to input(...)
Confirm(r) ==
    /\ pc = "confirm"
    /\ response' = r
    /\ IF Lower(r) # Yes
       THEN /\ Exit(0, "aborted")
            /\ UNCHANGED stages
       ELSE /\ pc' = "create"
            /\ stages' = <<"create">>
            /\ UNCHANGED <<exit_code, outcome>>
    /\ UNCHANGED <<fsVars, dry_run, i, j, todo, counters, impBefore, history>>

\* Variant: the directory is made in either mode.
MkdirAlways(existing, domain, dry) == existing \cup {PRICING_DIR \o <<domain>>}

\* domain_dir.mkdir(exist_ok=True), unless dry_run
Mkdir(existing, domain, dry) ==
    IF dry THEN existing ELSE existing \cup {PRICING_DIR \o <<domain>>}

\* create_domain_packages: one iteration
CreateDomainPackage ==
    /\ pc = "create"
    /\ i <= Len(DOMAINS)
    /\ dirs' = Mkdir(dirs, DOMAINS[i].domain, dry_run)
    /\ IF i = Len(DOMAINS)
       THEN /\ pc' = "move"
            /\ stages' = Append(stages, "move")
            /\ i' = i
       ELSE /\ i' = i + 1
            /\ UNCHANGED <<pc, stages>>
    /\ UNCHANGED <<fs, dry_run, response, exit_code, outcome, j, todo, counters, impBefore, history>>

\* Variant: update_imports is called whatever the mode.
EndMoveAlwaysImports(files, order) ==
    /\ j' = j
    /\ todo' = Rglob(files, order)
    /\ impBefore' = files
    /\ IF todo' = <<>>
       THEN /\ pc' = "summary"
            /\ stages' = stages \o <<"imports", "summary">>
       ELSE /\ pc' = "imports"
            /\ stages' = Append(stages, "imports")
    /\ UNCHANGED <<exit_code, outcome>>

\* move_files_and_update_packages returns on the tree `files`; main() ends
\* a dry run, or calls update_imports, whose rglob lists in `order`.
EndMove(files, order) ==
    /\ j' = j
    /\ IF dry_run
       THEN /\ Exit(0, "dry")
            /\ UNCHANGED <<todo, stages, impBefore>>
       ELSE /\ todo' = Rglob(files, order)
            /\ impBefore' = files
            /\ IF todo' = <<>>
               THEN /\ pc' = "summary"
                    /\ stages' = stages \o <<"imports", "summary">>
               ELSE /\ pc' = "imports"
                    /\ stages' = Append(stages, "imports")
            /\ UNCHANGED <<exit_code, outcome>>

\* The end of one iteration of move_files_and_update_packages: the next
\* pair, or the end of the loop.
NextPair(files, order) ==
    IF j < Len(Pairs)
    THEN /\ j' = j + 1
         /\ pc' = "move"
         /\ UNCHANGED <<todo, stages, impBefore, exit_code, outcome>>
    ELSE EndMove(files, order)

\* Variant: a missing file ends the loop (break for continue).
MoveSkipBreak(order) ==
    /\ pc = "move"
    /\ fs[Source(Pairs[j].filename)] = NoFile
    /\ EndMove(fs, order)
    /\ UNCHANGED <<fsVars, dry_run, response, i, counters, history>>

\* move_files_and_update_packages: the source file is missing
MoveSkip(order) ==
    /\ pc = "move"
    /\ fs[Source(Pairs[j].filename)] = NoFile
    /\ NextPair(fs, order)
    /\ UNCHANGED <<fsVars, dry_run, response, i, counters, history>>

\* move_files_and_update_packages: the dry-run branch
MoveDryRun(order) ==
    /\ pc = "move"
    /\ fs[Source(Pairs[j].filename)] # NoFile
    /\ dry_run
    /\ moved_count' = moved_count + 1
    /\ NextPair(fs, order)
    /\ UNCHANGED <<fsVars, dry_run, response, i, files_updated, imports_updated, history>>

\* Variant: the original is removed before the new file is written.
MoveWriteUnlinksFirst ==
    /\ pc = "move"
    /\ fs[Source(Pairs[j].filename)] # NoFile
    /\ ~dry_run
    /\ fs' = [fs EXCEPT ![Source(Pairs[j].filename)] = NoFile]
    /\ pc' = "unlink"
    /\ UNCHANGED <<dirs, dry_run, response, exit_code, outcome, i, j, todo, counters, stages,
                   impBefore, history>>

\* move_files_and_update_packages: read, substitute, write to the new place
MoveWrite ==
    /\ pc = "move"
    /\ fs[Source(Pairs[j].filename)] # NoFile
    /\ ~dry_run
    /\ LET source == Source(Pairs[j].filename)
           dest == Dest(Pairs[j].domain, Pairs[j].filename)
       IN IF dest.dir \in dirs
          THEN /\ fs' = [fs EXCEPT ![dest] = File(UpdatePackage(fs[source].content, Pairs[j].domain))]
               /\ pc' = "unlink"
               /\ UNCHANGED <<exit_code, outcome>>
          ELSE /\ Exit(1, "error")
               /\ UNCHANGED fs
    /\ UNCHANGED <<dirs, dry_run, response, i, j, todo, counters, stages, impBefore, history>>

\* Variant: the original is left in place.
MoveUnlinkKeeps(order) ==
    /\ pc = "unlink"
    /\ moved_count' = moved_count + 1
    /\ NextPair(fs, order)
    /\ UNCHANGED <<fsVars, dry_run, response, i, files_updated, imports_updated, history>>

\* move_files_and_update_packages: source.unlink() and the count
MoveUnlink(order) ==
    /\ pc = "unlink"
    /\ fs' = [fs EXCEPT ![Source(Pairs[j].filename)] = NoFile]
    /\ moved_count' = moved_count + 1
    /\ NextPair(fs', order)
    /\ UNCHANGED <<dirs, dry_run, response, i, files_updated, imports_updated, history>>

\* update_imports: one iteration of the loop over rglob, and the return to
\* main() after the last one
UpdateImportsFile ==
    /\ pc = "imports"
    /\ todo # <<>>
    /\ LET java_file == Head(todo)
           original_content == fs[java_file].content
           new == RewriteImports(original_content)
       IN IF new.content # original_content
          THEN /\ fs' = [fs EXCEPT ![java_file] = File(new.content)]
               /\ files_updated' = files_updated + 1
               /\ imports_updated' = imports_updated + new.count
          ELSE UNCHANGED <<fs, files_updated, imports_updated>>
    /\ todo' = Tail(todo)
    /\ IF todo' = <<>>
       THEN /\ pc' = "summary"
            /\ stages' = Append(stages, "summary")
       ELSE UNCHANGED <<pc, stages>>
    /\ UNCHANGED <<dirs, dry_run, response, exit_code, outcome, i, j, moved_count, impBefore, history>>

\* print_summary and verify_structure (read-only), then main() returns
PrintSummary ==
    /\ pc = "summary"
    /\ Exit(0, "completed")
    /\ UNCHANGED <<fsVars, dry_run, response, i, j, todo, counters, stages, impBefore, history>>

\* KeyboardInterrupt or any other exception, caught at the top level
Interrupt ==
    /\ pc \in {"confirm", "create", "move", "unlink", "imports", "summary"}
    /\ Exit(1, "error")
    /\ UNCHANGED <<fsVars, dry_run, response, i, j, todo, counters, stages, impBefore, history>>

\* The script is started again on the tree the last process left.
Relaunch ==
    /\ pc = "exited"
    /\ run < MaxRuns
    /\ run' = run + 1
    /\ pc' = "start"
    /\ dry_run' = FALSE
    /\ response' = <<>>
    /\ exit_code' = -1
    /\ outcome' = "running"
    /\ i' = 1
    /\ j' = 1
    /\ todo' = <<>>
    /\ moved_count' = 0
    /\ files_updated' = 0
    /\ imports_updated' = 0
    /\ stages' = <<>>
    /\ fsStart' = fs
    /\ dirsStart' = dirs
    /\ impBefore' = fs
    /\ fsPrev' = fsStart
    /\ prevOutcome' = outcome
    /\ UNCHANGED fsVars

\* One invocation of the script, in either mode.
Next ==
    \/ \E dr \in BOOLEAN : Launch(dr)
    \/ \E r \in Responses : Confirm(r)
    \/ CreateDomainPackage
    \/ \E order \in ScanOrders : MoveSkip(order)
    \/ \E order \in ScanOrders : MoveDryRun(order)
    \/ MoveWrite
    \/ \E order \in ScanOrders : MoveUnlink(order)
    \/ UpdateImportsFile
    \/ PrintSummary
    \/ Interrupt

Spec == Init /\ [][Next]_vars

\* Confirmed live invocations, each run to its end or interrupted, one after
\* the other on the same tree.
NextRerun ==
    \/ Launch(FALSE)
    \/ Confirm(Yes)
    \/ CreateDomainPackage
    \/ \E order \in ScanOrders : MoveSkip(order)
    \/ MoveWrite
    \/ \E order \in ScanOrders : MoveUnlink(order)
    \/ UpdateImportsFile
    \/ PrintSummary
    \/ Interrupt
    \/ Relaunch

SpecRerun == InitRerun /\ [][NextRerun]_vars

\* ============================================================== properties
Range(s) == {s[n] : n \in 1..Len(s)}
IsJava(p) == p.name[Len(p.name)] = ".java"
PairIndexes == 1..Len(Pairs)
SourceOf(n) == Source(Pairs[n].filename)
DestOf(n) == Dest(Pairs[n].domain, Pairs[n].filename)
StageOrder == <<"create", "move", "imports", "summary">>
IsPrefix(s, t) == Len(s) <= Len(t) /\ s = SubSeq(t, 1, Len(s))

\* The domain the Domain Table lists a class under.
TableDomain(classname) ==
    CHOOSE d \in {DOMAINS[n].domain : n \in 1..Len(DOMAINS)} :
        \E n \in 1..Len(DOMAINS) :
            DOMAINS[n].domain = d /\ <<classname, ".java">> \in Range(DOMAINS[n].files)

\* An old-flat-package declaration at the start of a line, with any
\* whitespace after the keyword and before the semicolon.
IsOldDeclaration(line) == line \in {Package("plain", ""), Package("spaced", "")}

\* "import com.meatrics.pricing.<Class>;" of a class of the index
IsOldImport(line) == line.k = "import" /\ line.sub = "" /\ line.cls \in KnownClasses
Qualified(line) == Import(TableDomain(line.cls), line.cls)

\* The files update_imports has visited, their content when the stage was
\* entered and their content now.
Processed ==
    IF "imports" \in Range(stages)
    THEN {p \in Paths : impBefore[p].exists /\ IsJava(p) /\ p \notin Range(todo)}
    ELSE {}
Before(p) == impBefore[p].content
After(p) == fs[p].content

\* The lines that stand in After(p) where the first wildcard import of
\* Before(p) stood (every wildcard line is replaced by the same lines).
WildcardReplacement(p) ==
    LET b == Before(p)
        wild == {n \in 1..Len(b) : b[n] = Wildcard}
        first == CHOOSE n \in wild : \A m \in wild : n <= m
        width == (Len(After(p)) - (Len(b) - Cardinality(wild))) \div Cardinality(wild)
    IN IF first + width - 1 <= Len(After(p)) /\ width >= 1
       THEN SubSeq(After(p), first, first + width - 1)
       ELSE <<>>

CompletedLive == pc = "exited" /\ outcome = "completed"

\* ---------------------------------------------------------------------- C1
\* C1: after a completed live run every configured file that was in the flat
\* package at start is at <pricing>/<domain>/<filename> and no longer in the
\* flat package, whichever configured files were missing at start.
C1_MovedAfterLiveRun ==
    CompletedLive =>
        \A n \in PairIndexes :
            fsStart[SourceOf(n)].exists => fs[DestOf(n)].exists /\ ~fs[SourceOf(n)].exists

\* A live run has completed with a configured file missing at start before
\* one that was there and has been moved.
C1_Witness ==
    /\ CompletedLive
    /\ \E m, n \in PairIndexes :
          /\ m < n
          /\ ~fsStart[SourceOf(m)].exists
          /\ fsStart[SourceOf(n)].exists
          /\ fs[DestOf(n)].exists

\* ---------------------------------------------------------------------- C2
\* C2 as claimed: the content written at the destination is the source
\* content with only the first old-package declaration replaced by
\* "package com.meatrics.pricing.<domain>;", later declarations included in
\* the part that stays the same.
C2_OnlyFirstDeclarationReplaced ==
    pc = "unlink" =>
        LET src == fs[SourceOf(j)].content
            dst == fs[DestOf(j)].content
            decls == {n \in 1..Len(src) : IsOldDeclaration(src[n])}
        IN dst = [n \in 1..Len(src) |->
                     IF n \in decls /\ \A m \in decls : n <= m
                     THEN Package("plain", Pairs[j].domain)
                     ELSE src[n]]

\* C2 amended: the content written at the destination is the source content
\* with every line-anchored old-package declaration replaced by
\* "package com.meatrics.pricing.<domain>;" and every other line identical.
C2_EveryDeclarationReplaced ==
    pc = "unlink" =>
        LET src == fs[SourceOf(j)].content
            dst == fs[DestOf(j)].content
        IN /\ fs[DestOf(j)].exists
           /\ Len(dst) = Len(src)
           /\ \A n \in 1..Len(src) :
                 dst[n] = IF IsOldDeclaration(src[n])
                          THEN Package("plain", TableDomain(ClassName(Pairs[j].filename)))
                          ELSE src[n]

\* A file with two line-anchored old declarations has been written to its
\* destination.
C2_Witness ==
    /\ pc = "unlink"
    /\ \E m, n \in 1..Len(fs[SourceOf(j)].content) :
          /\ m < n
          /\ IsOldDeclaration(fs[SourceOf(j)].content[m])
          /\ IsOldDeclaration(fs[SourceOf(j)].content[n])
          /\ fs[DestOf(j)].content[n] = Package("plain", Pairs[j].domain)

TreeAsAtStart == fs = fsStart /\ dirs = dirsStart

\* C5: a run with --dry-run changes no directory and no file at any point,
\* never enters update_imports or the summary, and ends with status zero.
C5_DryRunChangesNothing ==
    dry_run =>
        /\ TreeAsAtStart
        /\ IsPrefix(stages, <<"create", "move">>)
        /\ todo = <<>>
        /\ files_updated = 0
        /\ outcome = "dry" => exit_code = 0

\* A dry run has ended after reporting files it would move.
C5_Witness ==
    /\ dry_run
    /\ outcome = "dry"
    /\ moved_count > 0
    /\ \E n \in PairIndexes : ~fsStart[SourceOf(n)].exists

\* ---------------------------------------------------------------------- C7
\* "yes" in any mix of upper and lower case
SaysYes(r) ==
    /\ Len(r) = 3
    /\ r[1] \in {"y", "Y"}
    /\ r[2] \in {"e", "E"}
    /\ r[3] \in {"s", "S"}

\* C7: without the pricing directory the process exits with status 1, and a
\* live run whose confirmation is not "yes" (in any case) exits with status
\* 0; in both cases, and as long as no stage has been entered, the tree is
\* as at start; a stage is entered only past both gates.
C7_NothingBeforeTheGates ==
    /\ outcome = "nodir" =>
          exit_code = 1 /\ PRICING_DIR \notin dirsStart /\ TreeAsAtStart /\ stages = <<>>
    /\ (PRICING_DIR \notin dirsStart /\ pc # "start") => outcome = "nodir"
    /\ outcome = "aborted" =>
          exit_code = 0 /\ ~dry_run /\ ~SaysYes(response) /\ TreeAsAtStart /\ stages = <<>>
    /\ (pc \notin {"start", "confirm"} /\ ~dry_run /\ ~SaysYes(response)
          /\ outcome \notin {"nodir", "error"}) => outcome = "aborted"
    /\ stages # <<>> => PRICING_DIR \in dirsStart /\ (dry_run \/ SaysYes(response))
    /\ stages = <<>> => TreeAsAtStart

\* A live run has been declined at the prompt.
C7_Witness ==
    /\ outcome = "aborted"
    /\ response = <<"n", "o">>
    /\ \E n \in PairIndexes : fs[SourceOf(n)].exists

\* ---------------------------------------------------------------------- C8
C8_Step ==
    /\ IsPrefix(stages', StageOrder)
    /\ IsPrefix(stages, stages')
    /\ stages' # stages =>
          /\ outcome' = "running"
          /\ Len(stages) = 1 => pc = "create" /\ i = Len(DOMAINS) /\ Len(stages') = 2
          /\ Len(stages) = 2 => pc \in {"move", "unlink"} /\ j = Len(Pairs)
          /\ Len(stages') = 4 => todo' = <<>>
    /\ Len(stages') >= 3 => ~dry_run'
    /\ (outcome = "running" /\ outcome' = "error") =>
          exit_code' = 1 /\ stages' = stages /\ fs' = fs /\ dirs' = dirs
    /\ outcome # "running" => stages' = stages /\ fs' = fs /\ dirs' = dirs

\* C8: the stages are entered in the one order create, move, imports,
\* summary, each at most once and only when the one before has finished;
\* imports and summary only in a live run; an error in a stage ends the
\* process with status 1, enters no further stage and leaves the tree as it
\* is at that moment.
C8_StagesForwardOnly == [][C8_Step]_vars

\* A live run has been stopped by an error in the move stage with a file
\* already moved.
C8_Witness ==
    /\ outcome = "error"
    /\ exit_code = 1
    /\ stages = <<"create", "move">>
    /\ \E n \in PairIndexes :
          fsStart[SourceOf(n)].exists /\ ~fs[SourceOf(n)].exists /\ fs[DestOf(n)].exists

\* ---------------------------------------------------------------------- C9
\* C9: at every point of a run, each configured file that was in the flat
\* package at start is in the flat package, at its domain location, or at
\* both; the original is never modified in place; between write and delete
\* both copies exist; and the files whose turn has not come are as at start.
C9_NeverNeitherCopy ==
    /\ \A n \in PairIndexes :
          /\ fsStart[SourceOf(n)].exists => fs[SourceOf(n)].exists \/ fs[DestOf(n)].exists
          /\ fs[SourceOf(n)].exists => fs[SourceOf(n)] = fsStart[SourceOf(n)]
    /\ pc = "unlink" => fs[SourceOf(j)].exists /\ fs[DestOf(j)].exists
    /\ pc = "move" =>
          \A n \in j..Len(Pairs) :
              fs[SourceOf(n)] = fsStart[SourceOf(n)] /\ fs[DestOf(n)] = fsStart[DestOf(n)]

\* A live run has been stopped between the write and the delete of a file.
C9_Witness ==
    /\ outcome = "error"
    /\ \E n \in PairIndexes :
          fs[SourceOf(n)].exists /\ fs[DestOf(n)].exists /\ ~fsStart[DestOf(n)].exists

\* --------------------------------------------------------------------- C6
\* C6: a confirmed live run that follows a completed live run finds every
\* configured file absent from the flat package, moves no file, rewrites no
\* file, and leaves every directory and every file as the first run left
\* them.
C6_SecondRunChangesNothing ==
    (CompletedLive /\ prevOutcome = "completed") =>
        /\ \A n \in PairIndexes : ~fsStart[SourceOf(n)].exists
        /\ moved_count = 0
        /\ files_updated = 0
        /\ imports_updated = 0
        /\ TreeAsAtStart

\* A second live run has completed after a first one that moved a file and
\* rewrote the imports of another.
C6_Witness ==
    /\ CompletedLive
    /\ prevOutcome = "completed"
    /\ \E n \in PairIndexes : fsPrev[SourceOf(n)].exists /\ ~fsStart[SourceOf(n)].exists
    /\ fsPrev[ViewFile] # fsStart[ViewFile]

\* -------------------------------------------------------------------- C10
\* The tree after the move stage of an uninterrupted live run on `files`,
\* pairs n.. still to do.
RECURSIVE MovedFrom(_, _)
MovedFrom(files, n) ==
    IF n > Len(Pairs) THEN files
    ELSE IF files[SourceOf(n)].exists
    THEN MovedFrom([files EXCEPT ![DestOf(n)] = File(UpdatePackage(files[SourceOf(n)].content, Pairs[n].domain)),
                                 ![SourceOf(n)] = NoFile], n + 1)
    ELSE MovedFrom(files, n + 1)

\* The tree an uninterrupted live run leaves when started on `files`.
LiveResult(files) ==
    LET moved == MovedFrom(files, 1)
    IN [p \in Paths |->
           IF moved[p].exists /\ IsJava(p)
           THEN File(RewriteImports(moved[p].content).content)
           ELSE moved[p]]

\* C10: a confirmed live run that completes after an interrupted live run
\* leaves the files, and the content of each, that one uninterrupted live
\* run leaves when started on the tree the interrupted run started on.
C10_RerunAfterCrashConverges ==
    /\ CompletedLive => fs = LiveResult(fsStart)
    /\ (CompletedLive /\ prevOutcome = "error") => fs = LiveResult(fsPrev)

\* A live run has completed on the tree left by a run that was stopped
\* between the write and the delete of a file.
C10_Witness ==
    /\ CompletedLive
    /\ prevOutcome = "error"
    /\ \E n \in PairIndexes :
          fsStart[SourceOf(n)].exists /\ fsStart[DestOf(n)].exists /\ ~fsPrev[DestOf(n)].exists

====
